---- MODULE Spec2Model ----
(***************************************************************************)
(* Wallet monitoring and change-notification engine of the Kaspa wallet    *)
(* tracker bot (src/k1.py): the wallets table, the two process-wide        *)
(* dictionaries last_transactions / last_transaction_counts, the job queue *)
(* of repeating check_transactions jobs, and the command handlers.         *)
(*                                                                         *)
(* Granularity.  requests.get is a blocking call, so a handler can only be *)
(* suspended at an `await'.  check_transactions has no await and is one    *)
(* atomic step; delete_wallet, edit_wallet, list_wallets and history touch *)
(* shared state only before their single await; track_wallet has three     *)
(* awaits (lines 97, 109, 117) and is split there.                         *)
(*                                                                         *)
(* Spec     : updates are handled one at a time (a command starts only     *)
(*            when no handler is suspended); jobs tick at any time.        *)
(* SpecConc : command handlers may also overlap each other.                *)
(* SpecTick : as Spec, with the tick's read and write as separate steps.   *)
(* SpecLive : Spec with a fair scheduler: every queued job runs again.     *)
(* SpecFormat : format_balance applied to amounts up to 2^31 KAS.          *)
(*                                                                         *)
(* The reply/send calls to Telegram are taken to succeed and to deliver.   *)
(* The USD estimate and the localized time of a formatted transaction are  *)
(* not part of the modelled text.                                          *)
(***************************************************************************)
EXTENDS Integers, Sequences, FiniteSets, Bags, TLC

\* ---------------------------------------------------------------- bounds
MaxRows == 2        \* rows in the wallets table
MaxJobs == 2        \* jobs in the job queue
MaxCount == 1       \* largest transaction count the ledger reports
DeepCount == 3      \* the same, for the population of one user and one address
QuietCount == 0     \* the same, for the population whose addresses stay empty
MaxHandlers == 2    \* track_wallet handlers in flight (SpecConc)

\* who talks to the bot about which addresses: two users sharing one address,
\* one user with two addresses, one user with one busy address, or one user
\* with two addresses that never receive a transaction
Populations == {[users |-> {"u1", "u2"}, addrs |-> {"a1"}, max |-> MaxCount],
                [users |-> {"u1"}, addrs |-> {"a1", "a2"}, max |-> MaxCount],
                [users |-> {"u1"}, addrs |-> {"a1"}, max |-> DeepCount],
                [users |-> {"u1"}, addrs |-> {"a1", "a2"}, max |-> QuietCount]}

\* ------------------------------------------------------ program constants
Limit == 10                     \* limit=10 of the full-transactions query
Transactions10 == 10            \* transactions[:10] in track_wallet
Newest == 1                     \* current_transactions[:1]
SompiPerKas == 100000000        \* 1_0000_0000
DroppedDigits == 2              \* balance_with_decimal[:-2]
PrintedDigits == 8              \* the 8 of :.8f
FiveToEight == 390625           \* 1_0000_0000 = 2^8 * 5^8
TwoExponent == 8
MantissaBits == 52              \* fraction bits of the float that / returns
KeptBits == 27                  \* fraction bits kept of it (see FractionBits)

VARIABLES
    world,                    \* the population of this run (never changes)
    wallets,                  \* table wallets, rows in rowid order
    last_transactions,        \* dict wallet_address -> list of transactions
    last_transaction_counts,  \* dict wallet_address -> int
    jobs,                     \* bag of job.data of the repeating jobs
    handlers,                 \* track_wallet invocations suspended at an await
    total,                    \* ledger: transactions-count of each address
    last,                     \* history: the step just taken and its outcome
    status,                   \* history, per (user, address): "notified" since the
                              \*   ledger count of the address last changed; "owed"
                              \*   when subscribed while only others were notified
    seeded,                   \* history: address -> count seeded by track_wallet,
                              \*   until a tick reports another count
    raced,                    \* history: (user, address) of overlapping adds
    failed,                   \* history: a ledger call of track_wallet or of
                              \*   check_transactions has answered non-200
    running,                  \* SpecTick: the ticks between their read of
                              \*   last_transaction_counts and their write
    overlap,                  \* SpecTick, history: the observation state of an
                              \*   address was touched inside a tick of that address
    amount,                   \* SpecFormat: the argument of format_balance
    text                      \* SpecFormat: the string format_balance returned

vars == <<world, wallets, last_transactions, last_transaction_counts, jobs, handlers,
          total, last, status, seeded, raced, failed, running, overlap, amount, text>>

\* the variables that only SpecTick and SpecFormat move
aux == <<running, overlap, amount, text>>

Users == world.users

Addrs == world.addrs

Counts == 0..world.max

\* ---------------------------------------------------------------- helpers
Min(a, b) == IF a < b THEN a ELSE b

RECURSIVE Sum(_)
Sum(s) == IF s = <<>> THEN 0 ELSE Head(s) + Sum(Tail(s))

Prefix(s, n) == SubSeq(s, 1, Min(n, Len(s)))

RECURSIVE Filter(_, _, _)
\* DELETE FROM wallets WHERE user_id=u AND wallet_address=a
Filter(s, u, a) ==
    IF s = <<>> THEN <<>>
    ELSE IF Head(s).user_id = u /\ Head(s).wallet_address = a
         THEN Filter(Tail(s), u, a)
         ELSE <<Head(s)>> \o Filter(Tail(s), u, a)

Row(u, a) == [user_id |-> u, wallet_address |-> a]

RowCount(u, a) == Cardinality({i \in DOMAIN wallets : wallets[i] = Row(u, a)})

Idle == [pc |-> "idle", user |-> "", addr |-> ""]

AllIdle == \A h \in DOMAIN handlers : handlers[h] = Idle

InFlight == {h \in DOMAIN handlers : handlers[h] # Idle}

\* chat_id of a private chat is the user's id
Chat(u) == u

JobData == [chat_id : Users, wallet_address : Addrs]

JobsFor(a) ==
    LET S == {j \in BagToSet(jobs) : j.wallet_address = a}
    IN BagCardinality([j \in S |-> jobs[j]])

Put(f, k, v) == [x \in (DOMAIN f) \cup {k} |-> IF x = k THEN v ELSE f[x]]

Subscribers(a) == {u \in Users : RowCount(u, a) > 0}

\* data of the job that track_wallet schedules for user u and address a
Job(u, a) == [chat_id |-> Chat(u), wallet_address |-> a]

\* ------------------------------------------------------------ the ledger
\* outputs of the k-th transaction of an address
Outputs(k) == IF k = 1 THEN <<1234567890>>
              ELSE IF k = 2 THEN <<100, 50>>
              ELSE <<99999999, 1>>

Tx(a, k) == [transaction_id |-> <<a, k>>, outputs |-> Outputs(k)]

\* full-transactions?limit=10&offset=0 : most recent first
Recent(a) == [i \in 1..Min(total[a], Limit) |-> Tx(a, total[a] + 1 - i)]

get_wallet_transactions(a, ok) == IF ok THEN Recent(a) ELSE <<>>

get_transaction_count(a, ok) == IF ok THEN total[a] ELSE 0

\* ------------------------------------------------------------ formatting
\* An amount of sompi is the pair <<whole, rest>> = <<n div 10^8, n mod 10^8>>;
\* the text "<whole>.<six digits>" is the pair <<whole, six digits>>.
RECURSIVE Log2(_)
Log2(n) == IF n <= 1 THEN 0 ELSE 1 + Log2(n \div 2)

\* n = whole * 10^8 + rest, truncated as decimal text
truncated(whole, rest) == <<whole, rest \div (10 ^ DroppedDigits)>>

\* bits after the binary point of a float in [whole, whole + 1): 52 less the
\* exponent.  Bits beyond KeptBits move the float by less than 2^-28, which is
\* under half a unit of the eighth decimal and cannot change the printed
\* digits; they are dropped to stay within TLC's integers.
FractionBits(whole) == Min(MantissaBits - Log2(whole), KeptBits)

RECURSIVE Scale(_, _, _, _, _)
\* <<q, r>> with q + r/d = (q0 + r0/d) * k^n
Scale(q0, r0, k, n, d) ==
    IF n = 0 THEN <<q0, r0>>
    ELSE Scale(k * q0 + (k * r0) \div d, (k * r0) % d, k, n - 1, d)

\* int / 1_0000_0000: the float nearest to whole + rest / 10^8, as the
\* numerator of its fraction over 2^FractionBits(whole)
true_division(whole, rest) ==
    LET s == FractionBits(whole) - TwoExponent
        x == Scale(rest \div FiveToEight, rest % FiveToEight, 2, s, FiveToEight)
    IN x[1] + (IF 2 * x[2] > FiveToEight THEN 1 ELSE 0)

\* f"{...:.8f}": the fraction m / 2^F rounded to 8 decimals, ties to even
format_8f(whole, m) ==
    LET P == 2 ^ (FractionBits(whole) - TwoExponent)
        x == Scale(0, m % P, 5, PrintedDigits, P)
        base == (m \div P) * FiveToEight + x[1]
        digits == base + (IF 2 * x[2] > P \/ (2 * x[2] = P /\ base % 2 = 1)
                          THEN 1 ELSE 0)
    IN IF digits = SompiPerKas THEN <<whole + 1, 0>> ELSE <<whole, digits>>

\* lines 227-230 for the amount <<whole, rest>>
format_amount(whole, rest) ==
    LET printed == format_8f(whole, true_division(whole, rest))
    IN <<printed[1], printed[2] \div (10 ^ DroppedDigits)>>

format_balance(balance) ==
    format_amount(balance \div SompiPerKas, balance % SompiPerKas)

format_transactions(transactions) ==
    [i \in DOMAIN transactions |->
        [n |-> i,
         transaction_id |-> transactions[i].transaction_id,
         amount |-> format_balance(Sum(transactions[i].outputs))]]

\* ------------------------------------------------------- change detection
\* a comparison that only sees growth
detect_increase(a, current_transaction_count) ==
    IF a \in DOMAIN last_transaction_counts
       /\ current_transaction_count > last_transaction_counts[a]
    THEN "Changed" ELSE "Unchanged"

\* line 279
detect(a, current_transaction_count) ==
    IF a \in DOMAIN last_transaction_counts
       /\ current_transaction_count # last_transaction_counts[a]
    THEN "Changed" ELSE "Unchanged"

\* ------------------------------------------------- what a tick reports
\* a true diff: the fetched transactions whose id is not in the stored list
new_transactions_unseen(a, current_transactions) ==
    LET stored == IF a \in DOMAIN last_transactions
                  THEN {last_transactions[a][i].transaction_id :
                            i \in DOMAIN last_transactions[a]}
                  ELSE {}
    IN SelectSeq(current_transactions, LAMBDA t : t.transaction_id \notin stored)

\* line 283: current_transactions[:1], whatever is stored for the address
new_transactions(a, current_transactions) == Prefix(current_transactions, Newest)

\* --------------------------------------------------------- the job queue
\* a job whose run has failed is dropped from the queue
AfterTick_fatal(job, ok) == IF ok THEN jobs ELSE jobs (-) SetToBag({job})

\* run_repeating (lines 119-121): the job stays in the queue after every run;
\* check_transactions returns normally whatever the ledger answered
AfterTick(job, ok) == jobs

\* ------------------------------------------------------------------ Init
NoStep == [op |-> "none", user |-> "", addr |-> "", addr2 |-> "", reply |-> "",
           okCount |-> TRUE, okTx |-> TRUE, cur |-> 0, prev |-> -1,
           outcome |-> "", msg |-> <<>>, again |-> FALSE, dup |-> FALSE,
           kept |-> TRUE, seed |-> -1, single |-> FALSE, conflict |-> FALSE,
           listing |-> <<>>, missing |-> FALSE, monitored |-> FALSE,
           known |-> FALSE]

\* the program after start-up
Boot ==
    /\ world \in Populations
    /\ wallets = <<>>
    /\ last_transactions = <<>>
    /\ last_transaction_counts = <<>>
    /\ jobs = EmptyBag
    /\ handlers = [h \in 1..MaxHandlers |-> Idle]
    /\ total \in [Addrs -> Counts]
    /\ last = NoStep
    /\ status = [u \in Users |-> [a \in Addrs |-> "none"]]
    /\ seeded = [a \in Addrs |-> -1]
    /\ raced = {}
    /\ failed = FALSE
    /\ running = <<>>
    /\ overlap = FALSE

Init ==
    /\ Boot
    /\ amount = <<0, 0>>
    /\ text = <<>>

\* ------------------------------------------------- /track <wallet_address>
\* lines 88-97: SELECT, then either "already tracking" or await "Tracking wallet"
TrackCheck(conc, u, a) ==
    /\ conc \/ AllIdle
    /\ LET again == last.op = "track" /\ last.user = u /\ last.addr = a /\ AllIdle
       IN IF RowCount(u, a) > 0
          THEN /\ last' = [NoStep EXCEPT !.op = "track", !.user = u, !.addr = a,
                                         !.reply = "AlreadyExists", !.again = again]
               /\ UNCHANGED <<handlers, raced>>
          ELSE /\ Len(wallets) + Cardinality(InFlight) < MaxRows
               /\ BagCardinality(jobs) + Cardinality(InFlight) < MaxJobs
               /\ \E h \in DOMAIN handlers :
                    /\ handlers[h] = Idle
                    /\ \A g \in DOMAIN handlers : g < h => handlers[g] # Idle
                    /\ handlers' = [handlers EXCEPT
                                      ![h] = [pc |-> "insert", user |-> u, addr |-> a]]
               /\ raced' = IF \E g \in InFlight : handlers[g].user = u /\ handlers[g].addr = a
                                                  /\ handlers[g].pc = "insert"
                           THEN raced \cup {<<u, a>>} ELSE raced
               /\ last' = [NoStep EXCEPT !.op = "track", !.user = u, !.addr = a,
                                         !.reply = "Tracking", !.again = again]
    /\ UNCHANGED <<wallets, last_transactions, last_transaction_counts, jobs, total,
                   status, seeded, world, failed>>

\* lines 99-109: INSERT + commit, balance and price, await "Current balance";
\* float('Error fetching balance') raises, the handler ends at line 124
TrackInsert(h, okBalance) ==
    /\ handlers[h].pc = "insert"
    /\ wallets' = Append(wallets, Row(handlers[h].user, handlers[h].addr))
    /\ handlers' = [handlers EXCEPT ![h] = IF okBalance
                                           THEN [handlers[h] EXCEPT !.pc = "seed"]
                                           ELSE Idle]
    /\ last' = [NoStep EXCEPT !.op = "track", !.user = handlers[h].user,
                              !.addr = handlers[h].addr,
                              !.reply = IF okBalance THEN "Balance" ELSE "Error"]
    /\ failed' = (failed \/ ~okBalance)
    /\ UNCHANGED <<last_transactions, last_transaction_counts, jobs, total,
                   status, seeded, raced, world>>

\* lines 111-117: seed both dictionaries, await "Initial transactions"
TrackSeed(h, okTx, okCount) ==
    /\ handlers[h].pc = "seed"
    /\ LET a == handlers[h].addr
           transactions == get_wallet_transactions(a, okTx)
           transaction_count == get_transaction_count(a, okCount)
       IN /\ last_transactions' = Put(last_transactions, a, transactions)
          /\ last_transaction_counts' = Put(last_transaction_counts, a, transaction_count)
          /\ seeded' = [seeded EXCEPT ![a] = transaction_count]
          /\ last' = [NoStep EXCEPT !.op = "track", !.user = handlers[h].user, !.addr = a,
                                    !.reply = "Initial", !.okCount = okCount, !.okTx = okTx,
                                    !.monitored = JobsFor(a) > 0,
                                    !.prev = IF a \in DOMAIN last_transaction_counts
                                             THEN last_transaction_counts[a] ELSE -1,
                                    !.kept = /\ last_transactions' = last_transactions
                                             /\ last_transaction_counts' = last_transaction_counts,
                                    !.msg = format_transactions(Prefix(transactions, Transactions10))]
    /\ handlers' = [handlers EXCEPT ![h] = [handlers[h] EXCEPT !.pc = "schedule"]]
    /\ failed' = (failed \/ ~okTx \/ ~okCount)
    /\ UNCHANGED <<wallets, jobs, total, status, raced, world>>

\* lines 119-122: job_queue.run_repeating(check_transactions, ...)
TrackSchedule(h) ==
    /\ handlers[h].pc = "schedule"
    /\ jobs' = jobs (+) SetToBag({[chat_id |-> Chat(handlers[h].user),
                                   wallet_address |-> handlers[h].addr]})
    /\ handlers' = [handlers EXCEPT ![h] = Idle]
    /\ last' = [NoStep EXCEPT !.op = "track", !.user = handlers[h].user,
                              !.addr = handlers[h].addr, !.reply = "Scheduled"]
    /\ UNCHANGED <<wallets, last_transactions, last_transaction_counts, total,
                   status, seeded, raced, world, failed>>

\* ----------------------------------------- /delete_wallet <wallet_address>
delete_wallet(conc, u, a) ==
    /\ conc \/ AllIdle
    /\ wallets' = Filter(wallets, u, a)
    /\ last' = [NoStep EXCEPT !.op = "delete", !.user = u, !.addr = a, !.reply = "Stopped",
                              !.missing = RowCount(u, a) = 0,
                              !.kept = (wallets' = wallets)]
    /\ status' = [status EXCEPT ![u][a] = "none"]
    /\ raced' = raced \ {<<u, a>>}
    /\ UNCHANGED <<last_transactions, last_transaction_counts, jobs, handlers, total,
                   seeded, world, failed>>

\* ------------------------------------------------ /edit_wallet <old> <new>
edit_wallet(conc, u, old, new) ==
    /\ conc \/ AllIdle
    /\ wallets' = [i \in DOMAIN wallets |->
                     IF wallets[i] = Row(u, old) THEN Row(u, new) ELSE wallets[i]]
    /\ last' = [NoStep EXCEPT !.op = "edit", !.user = u, !.addr = old, !.addr2 = new,
                              !.reply = "Updated",
                              !.conflict = old # new /\ RowCount(u, old) > 0
                                           /\ RowCount(u, new) > 0,
                              !.missing = RowCount(u, old) = 0,
                              !.monitored = CopiesIn(Job(u, old), jobs) > 0,
                              !.kept = (wallets' = wallets)]
    /\ status' = [status EXCEPT ![u][old] = "none"]
    /\ raced' = raced \ {<<u, old>>, <<u, new>>}
    /\ UNCHANGED <<last_transactions, last_transaction_counts, jobs, handlers, total,
                   seeded, world, failed>>

\* ------------------------------------------------------------ /list_wallets
RECURSIVE Addresses(_, _)
\* SELECT wallet_address FROM wallets WHERE user_id=u
Addresses(s, u) ==
    IF s = <<>> THEN <<>>
    ELSE IF Head(s).user_id = u
         THEN <<Head(s).wallet_address>> \o Addresses(Tail(s), u)
         ELSE Addresses(Tail(s), u)

list_wallets(conc, u, okBalance) ==
    /\ conc \/ AllIdle
    /\ LET rows == Addresses(wallets, u)
       IN last' = [NoStep EXCEPT !.op = "list", !.user = u,
                     !.reply = IF rows = <<>> THEN "NotTracking"
                               ELSE IF okBalance THEN "Tracked" ELSE "Error",
                     !.listing = IF okBalance THEN rows ELSE <<>>]
    /\ UNCHANGED <<wallets, last_transactions, last_transaction_counts, jobs, handlers,
                   total, status, seeded, raced, world, failed>>

\* ----------------------------------------------- /history <wallet_address>
history(conc, a, okTx) ==
    /\ conc \/ AllIdle
    /\ LET transactions == get_wallet_transactions(a, okTx)
       IN last' = [NoStep EXCEPT !.op = "history", !.addr = a,
                     !.reply = IF transactions # <<>> THEN "Recent" ELSE "NoTransactions",
                     !.msg = format_transactions(transactions)]
    /\ UNCHANGED <<wallets, last_transactions, last_transaction_counts, jobs, handlers,
                   total, status, seeded, raced, world, failed>>

\* ----------------------------------------------------- check_transactions
\* lines 282-293, for the count and the comparison of lines 275-279
TickBody(job, okCount, okTx, current_transaction_count, outcome) ==
    /\ LET chat_id == job.chat_id
           wallet_address == job.wallet_address
           current_transactions == get_wallet_transactions(wallet_address, okTx)
           new == new_transactions(wallet_address, current_transactions)
           sends == outcome = "Changed" /\ new # <<>>
       IN /\ last_transaction_counts' =
                Put(last_transaction_counts, wallet_address, current_transaction_count)
          /\ last_transactions' =
                IF sends THEN Put(last_transactions, wallet_address, current_transactions)
                ELSE last_transactions
          /\ status' =
                IF sends
                THEN [u \in Users |-> [status[u] EXCEPT ![wallet_address] =
                        IF u = chat_id THEN "notified"
                        ELSE IF u \in Subscribers(wallet_address) /\ @ # "notified"
                             THEN "owed" ELSE @]]
                ELSE status
          /\ seeded' =
                IF okCount /\ current_transaction_count # seeded[wallet_address]
                THEN [seeded EXCEPT ![wallet_address] = -1]
                ELSE seeded
          /\ last' = [NoStep EXCEPT
                        !.op = "tick", !.user = chat_id, !.addr = wallet_address,
                        !.okCount = okCount,
                        !.okTx = IF outcome = "Changed" THEN okTx ELSE TRUE,
                        !.cur = current_transaction_count,
                        !.prev = IF wallet_address \in DOMAIN last_transaction_counts
                                 THEN last_transaction_counts[wallet_address] ELSE -1,
                        !.outcome = outcome,
                        !.dup = sends /\ status[chat_id][wallet_address] = "notified",
                        !.kept = ~sends,
                        !.seed = seeded[wallet_address],
                        !.single = JobsFor(wallet_address) = 1
                                   /\ Len(SelectSeq(wallets, LAMBDA r :
                                            r.wallet_address = wallet_address)) = 1,
                        !.known = /\ sends
                                  /\ wallet_address \in DOMAIN last_transactions
                                  /\ \E i \in DOMAIN last_transactions[wallet_address] :
                                        last_transactions[wallet_address][i].transaction_id
                                            = new[1].transaction_id,
                        !.msg = IF sends THEN format_transactions(new) ELSE <<>>]
          /\ failed' = (failed \/ ~okCount \/ (outcome = "Changed" /\ ~okTx))
    /\ jobs' = AfterTick(job, okCount /\ (outcome = "Changed" => okTx))
    /\ UNCHANGED <<wallets, handlers, total, raced, world>>

check_transactions(job, okCount, okTx) ==
    /\ job \in BagToSet(jobs)
    /\ TickBody(job, okCount, okTx,
                get_transaction_count(job.wallet_address, okCount),
                detect(job.wallet_address,
                       get_transaction_count(job.wallet_address, okCount)))

\* ------------------------------------------------------------ the ledger
\* the transaction count of an address changes (either direction)
LedgerChange(a, c) ==
    /\ c # total[a]
    /\ total' = [total EXCEPT ![a] = c]
    /\ status' = [u \in Users |-> [status[u] EXCEPT ![a] =
                                        IF @ = "notified" THEN "none" ELSE @]]
    /\ last' = [NoStep EXCEPT !.op = "ledger"]
    /\ UNCHANGED <<wallets, last_transactions, last_transaction_counts, jobs, handlers,
                   seeded, raced, world, failed>>

\* ------------------------------------------------------------------ Next
\* the command handlers
Commands(conc) ==
    \/ \E u \in Users, a \in Addrs : TrackCheck(conc, u, a)
    \/ \E h \in DOMAIN handlers, okBalance \in BOOLEAN : TrackInsert(h, okBalance)
    \/ \E h \in DOMAIN handlers, okTx \in BOOLEAN, okCount \in BOOLEAN :
          TrackSeed(h, okTx, okCount)
    \/ \E h \in DOMAIN handlers : TrackSchedule(h)
    \/ \E u \in Users, a \in Addrs : delete_wallet(conc, u, a)
    \/ \E u \in Users, old \in Addrs, new \in Addrs : edit_wallet(conc, u, old, new)
    \/ \E u \in Users, okBalance \in BOOLEAN : list_wallets(conc, u, okBalance)
    \/ \E a \in Addrs, okTx \in BOOLEAN : history(conc, a, okTx)

Step(conc) ==
    \/ Commands(conc)
    \/ \E job \in JobData, okCount \in BOOLEAN, okTx \in BOOLEAN :
          check_transactions(job, okCount, okTx)
    \/ \E a \in Addrs, c \in Counts : LedgerChange(a, c)

Next == Step(FALSE) /\ UNCHANGED aux

NextConc == Step(TRUE) /\ UNCHANGED aux

Spec == Init /\ [][Next]_vars

\* overlapping handlers are explored for the first two populations
InitConc == Init /\ world.max = MaxCount

SpecConc == InitConc /\ [][NextConc]_vars

\* ------------------------------------------- the tick, read and write apart
\* a tick that gives up the event loop between its read and its write
Busy_yield == FALSE

\* check_transactions is a plain function without an await (lines 267-293):
\* from its first line to its return the event loop runs nothing else
Busy == running # <<>>

\* a tick of address a is between its read and its write
Inside(a) == \E i \in DOMAIN running : running[i].job.wallet_address = a

\* lines 268-279: the count is fetched and compared with the stored baseline
TickRead(job, okCount) ==
    /\ job \in BagToSet(jobs)
    /\ ~Busy
    /\ Len(running) < MaxJobs
    /\ running' = Append(running,
                     [job |-> job, okCount |-> okCount,
                      cur |-> get_transaction_count(job.wallet_address, okCount),
                      outcome |-> detect(job.wallet_address,
                                     get_transaction_count(job.wallet_address, okCount))])
    /\ overlap' = (overlap \/ Inside(job.wallet_address))
    /\ UNCHANGED <<world, wallets, last_transactions, last_transaction_counts, jobs,
                   handlers, total, last, status, seeded, raced, failed, amount, text>>

\* lines 282-293: the branch, the notification and the write of the baseline
TickWrite(okTx) ==
    /\ running # <<>>
    /\ TickBody(running[1].job, running[1].okCount, okTx,
                running[1].cur, running[1].outcome)
    /\ running' = Tail(running)
    /\ UNCHANGED <<overlap, amount, text>>

\* a command handler runs one of its steps; lines 111-115 of track_wallet
\* write the observation state of the address
TickCommands ==
    /\ ~Busy
    /\ Commands(FALSE)
    /\ overlap' = (overlap \/ (last'.op = "track" /\ last'.reply = "Initial"
                                  /\ Inside(last'.addr)))
    /\ UNCHANGED <<running, amount, text>>

NextTick ==
    \/ \E job \in JobData, okCount \in BOOLEAN : TickRead(job, okCount)
    \/ \E okTx \in BOOLEAN : TickWrite(okTx)
    \/ TickCommands
    \/ \E a \in Addrs, c \in Counts : LedgerChange(a, c) /\ UNCHANGED aux

\* the populations in which every job polls the same address
InitTick == Init /\ Cardinality(world.addrs) = 1

SpecTick == InitTick /\ [][NextTick]_vars

\* ------------------------------------------------- format_balance alone
\* amounts around the places where the float changes its precision, with
\* trailing zeros, trailing nines and a digit to cut
Wholes == {0, 1, 12, 1234, 33554432, 67108863, 67108864, 134217728,
           1073741824, 2147483646}

Rests == {0, 1, 99, 100, 101, 400, 12345678, 50000000, 56789012,
          99999899, 99999900, 99999999}

InitFormat ==
    /\ Boot
    /\ world.max = QuietCount
    /\ amount \in Wholes \X Rests
    /\ text = <<>>

\* a call format_balance(balance) (lines 106, 180, 254)
FormatCall ==
    /\ text = <<>>
    /\ text' = <<format_amount(amount[1], amount[2])>>
    /\ UNCHANGED <<world, wallets, last_transactions, last_transaction_counts, jobs,
                   handlers, total, last, status, seeded, raced, failed,
                   running, overlap, amount>>

NextFormat == FormatCall

SpecFormat == InitFormat /\ [][NextFormat]_vars

\* ------------------------------------------------ the scheduler is fair
\* job data of every population
AllJobs == [chat_id : {"u1", "u2"}, wallet_address : {"a1", "a2"}]

\* one run of the job with data j
Tick(j) ==
    /\ \E okCount \in BOOLEAN, okTx \in BOOLEAN : check_transactions(j, okCount, okTx)
    /\ UNCHANGED aux

\* run_repeating(check_transactions, interval=60, first=0) (lines 119-121):
\* the scheduler runs every queued job again and again; no handler step and
\* no tick blocks the event loop for ever
InitLive == Init /\ (Cardinality(world.users) > 1 \/ world.max = QuietCount)

SpecLive == InitLive /\ [][Next]_vars /\ \A j \in AllJobs : WF_vars(Tick(j))

\* the last step was a run of the job with data j
Ticked(j) == last.op = "tick" /\ last.user = j.chat_id /\ last.addr = j.wallet_address

\* ================================================================== claims
Occurrences(s, x) == Len(SelectSeq(s, LAMBDA y : y = x))

\* C1: in every reachable state there is at most one polling job per
\* wallet_address, whatever registrations, removals and edits happened.
C1_OneJobPerAddress == \A a \in Addrs : JobsFor(a) <= 1

\* C2: while every ledger call succeeds, the subscriber whose job has just
\* ticked is not left without the notification of a change that another
\* subscriber's tick has already notified and absorbed into the shared baseline.
C2_EverySubscriberNotified ==
    (last.op = "tick" /\ ~failed)
        => status[last.user][last.addr] # "owed"

\* C3: a tick whose transaction-count fetch fails sends no notification and
\* leaves last_transaction_counts and last_transactions of the address as
\* they were.
C3_FailedFetchLeavesBaseline ==
    (last.op = "tick" /\ ~last.okCount)
        => /\ last.msg = <<>>
           /\ last.kept
           /\ last_transaction_counts[last.addr] = last.prev

\* C4: one subscriber, baseline seeded to N at registration: a tick that
\* reports N sends nothing; the first tick that reports another count sends
\* exactly one notification, with the id and the formatted amount of the first
\* transaction the ledger returns.
C4_SeededBaselineScenario ==
    (last.op = "tick" /\ last.single /\ last.seed >= 0 /\ last.okCount)
        => IF last.cur = last.seed
           THEN last.msg = <<>>
           ELSE (last.okTx /\ Recent(last.addr) # <<>>)
                   => /\ Len(last.msg) = 1
                      /\ last.msg[1].transaction_id = Recent(last.addr)[1].transaction_id
                      /\ last.msg[1].amount =
                            format_balance(Sum(Recent(last.addr)[1].outputs))

\* C5: a tick with stored baseline M classifies a fetched count equal to M as
\* Unchanged and any other fetched count as Changed; either way the baseline
\* becomes the fetched count, so the same count fetched again is Unchanged and
\* any other count is Changed.
C5_ChangeDetection ==
    (last.op = "tick" /\ last.prev >= 0)
        => /\ last.outcome = IF last.cur = last.prev THEN "Unchanged" ELSE "Changed"
           /\ last_transaction_counts[last.addr] = last.cur
           /\ detect(last.addr, last.cur) = "Unchanged"
           /\ \A k \in Counts : k # last.cur => detect(last.addr, k) = "Changed"

\* a tick has classified a decrease of the count as Changed
C5_Witness ==
    /\ last.op = "tick"
    /\ last.prev >= 0
    /\ last.cur < last.prev
    /\ last.outcome = "Changed"

\* C6: no chat is notified twice about an address while the ledger's count of
\* that address has not changed in between, whichever jobs tick.
C6_NoDuplicateNotification == ~(last.op = "tick" /\ last.dup)

\* C7: the wallets table never holds two rows with the same
\* (user_id, wallet_address).
C7_NoDuplicateRows ==
    \A i, j \in DOMAIN wallets : wallets[i] = wallets[j] => i = j

C9_AddTwiceListedOnce ==
    (last.op = "track" /\ last.again)
        => /\ last.reply = "AlreadyExists"
           /\ Occurrences(Addresses(wallets, last.user), last.addr) = 1

\* C10: /edit_wallet of a tracked address to another address the user already
\* tracks is rejected as a Conflict and leaves the wallets table unchanged.
C10_EditConflictRejected ==
    (last.op = "edit" /\ last.conflict)
        => /\ last.reply = "Conflict"
           /\ last.kept

\* C11: /delete_wallet and /edit_wallet on a (user_id, address) pair that is
\* not in the table answer NotFound, not the success reply, and leave the
\* table unchanged (neither handler touches the dictionaries or the jobs).
C11_MissingPairNotFound ==
    (last.op \in {"delete", "edit"} /\ last.missing)
        => /\ last.reply = "NotFound"
           /\ last.kept

\* C12: once /delete_wallet has removed the last subscription of an address,
\* the address has no polling job left and no entry in last_transaction_counts
\* or last_transactions.
C12_LastUnsubscribeCancels ==
    (last.op = "delete" /\ ~last.missing /\ Subscribers(last.addr) = {})
        => /\ JobsFor(last.addr) = 0
           /\ last.addr \notin DOMAIN last_transaction_counts
           /\ last.addr \notin DOMAIN last_transactions

\* C13: between the read of last_transaction_counts by a tick of an address
\* and the write that ends that tick, no other tick of the address starts and
\* track_wallet does not write the address's entries of the two dictionaries.
C13_TicksDoNotOverlap == ~overlap

\* a tick is between its read and its write while a /track of the same
\* address by another user is suspended just before it seeds the address
C13_Witness ==
    /\ running # <<>>
    /\ \E h \in InFlight : /\ handlers[h].pc = "seed"
                            /\ handlers[h].addr = running[1].job.wallet_address
                            /\ Chat(handlers[h].user) # running[1].job.chat_id

\* C14: no run of check_transactions, failed or not, takes a job out of the
\* queue, and every job in the queue is run again: whatever has happened
\* (the failed ticks of this or of another wallet included), a queued job is
\* eventually run.
C14_TickFailureNotFatal ==
    /\ [][last'.op = "tick" => jobs' = jobs]_vars
    /\ \A j \in AllJobs : [](CopiesIn(j, jobs) > 0 => <>Ticked(j))

\* the count fetch of a tick has just failed while the job of another
\* wallet is in the queue
C14_Witness ==
    /\ last.op = "tick"
    /\ ~last.okCount
    /\ \E j \in BagToSet(jobs) : j.wallet_address # last.addr

\* C15: format_balance truncates: for the amount n = whole * 10^8 + rest it
\* returns whole, a point, and (rest div 100) as six digits.
C15_FormatTruncates ==
    text # <<>> => text[1] = truncated(amount[1], amount[2])

\* C16: when a /track call has ended and the (user_id, address) row is in the
\* table, the call has seeded the baseline of the address and its polling job
\* is in the job queue, whichever fetch of the call failed.
C16_RegistrationAllOrNothing ==
    (last.op = "track" /\ last.reply \in {"Error", "Scheduled"}
                       /\ RowCount(last.user, last.addr) > 0)
        => /\ CopiesIn(Job(last.user, last.addr), jobs) > 0
           /\ last.addr \in DOMAIN last_transaction_counts

\* C17: after /edit_wallet has moved a monitored subscription from old to
\* new, the user's polling job is on new and the user has no job on old.
C17_EditMovesMonitoring ==
    (last.op = "edit" /\ ~last.missing /\ last.monitored /\ last.addr # last.addr2)
        => /\ CopiesIn(Job(last.user, last.addr2), jobs) > 0
           /\ CopiesIn(Job(last.user, last.addr), jobs) = 0

\* C18: a tick that finds the count changed but gets no transaction to
\* report (the fetch failed or returned nothing) does not advance the baseline.
C18_ChangeNotLost ==
    (last.op = "tick" /\ last.okCount /\ last.outcome = "Changed" /\ last.msg = <<>>)
        => last_transaction_counts[last.addr] = last.prev

\* C19: a tick notifies only on Changed, and then about exactly one
\* transaction, the first of the list it has just fetched, whether the count
\* grew by one, grew by more, or shrank, and whether or not that transaction
\* is already in the stored last_transactions; a Changed tick whose fetch
\* returns transactions does notify.
C19_NotifiesNewestOnly ==
    last.op = "tick"
        => /\ last.msg # <<>> =>
                /\ last.outcome = "Changed"
                /\ Recent(last.addr) # <<>>
                /\ last.msg = format_transactions(<<Recent(last.addr)[1]>>)
           /\ (last.outcome = "Changed" /\ last.okTx /\ Recent(last.addr) # <<>>)
                => last.msg # <<>>

\* a tick on a decreased count has notified a transaction whose id was
\* already in the stored list
C19_Witness ==
    /\ last.op = "tick"
    /\ last.outcome = "Changed"
    /\ last.cur < last.prev
    /\ last.known
    /\ Len(last.msg) = 1

\* C20: /track by an additional user of an address that already has a
\* subscriber and a polling job leaves its entries in last_transaction_counts and last_transactions as they were.
C20_AdditionalSubscriberKeepsState ==
    (last.op = "track" /\ last.reply = "Initial" /\ last.monitored
                       /\ Subscribers(last.addr) \ {last.user} # {}
                       /\ last.okCount /\ last.okTx)
        => /\ last.kept
           /\ last_transaction_counts[last.addr] = last.prev

====
